---------------------------- MODULE Spec2Model ----------------------------
(***************************************************************************)
(* A model of daemon_rs: the ingestion server (src/src/server.rs), the     *)
(* storage engine (src/src/storage.rs), the parser (src/src/schema.rs) and *)
(* the query reader (src/src/query.rs).                                    *)
(*                                                                         *)
(* The server runs on one tokio_uring reactor thread: a task runs from one *)
(* await to the next without interleaving, and StorageEngine::flush is     *)
(* blocking I/O during which no other task of the reactor runs.  Clients,  *)
(* the clock and the query process are outside the reactor and take steps  *)
(* at any time.                                                            *)
(***************************************************************************)
EXTENDS Integers, Sequences, FiniteSets, TLC

(***************************************************************************)
(* Bounds of the model.                                                    *)
(***************************************************************************)
NConn == 2           \* clients that may connect
MaxConnections == 1  \* M, the capacity of the admission semaphore
QueueCap == 1        \* Q, the capacity of the mpsc channel
BatchSize == 3       \* B, the batch size of the storage engine
MaxFrames == 3       \* frames sent by all clients together
MaxPayloadLen == 1   \* longest payload a client sends
NumBodies == 1       \* distinct well-formed payload bytes
MaxFail == 1         \* I/O failures injected into flushes
MaxClock == 1        \* milliseconds the clock advances
MaxFiles == 11       \* file paths one engine generates
MaxLogs == 3         \* logs added to an engine that a query runs beside
MaxQueries == 1      \* runs of the query process
FlushInterval == 2   \* the flush interval, in time units
MaxEngineLogs == 7   \* logs added to an engine that the flush timer runs beside
MaxMillis == 2       \* the latest instant a timestamp string names, in ms

(***************************************************************************)
(* Program constants.                                                      *)
(***************************************************************************)
ReadBufSize == 8192  \* let mut buf = vec![0u8; 8192]
LenBytes == 4        \* the length prefix of a frame

(***************************************************************************)
(* The largest payload length the frame format admits (16 MiB).  The       *)
(* server has no such constant.                                            *)
(***************************************************************************)
MaxFrameLen == 16777216

Conns == 1 .. NConn

Min(a, b) == IF a < b THEN a ELSE b

(***************************************************************************)
(* Bytes and frames.  A payload of the one byte b in Bodies stands for the  *)
(* well-formed JSON object number b of the LogEntry shape; every other     *)
(* payload stands for text that is not such an object.                     *)
(***************************************************************************)
Bodies == 1 .. NumBodies
PayloadBytes == {0} \cup Bodies

RECURSIVE SeqsUpTo(_, _)
SeqsUpTo(S, n) ==
    IF n = 0 THEN {<<>>}
    ELSE LET shorter == SeqsUpTo(S, n - 1) IN
         shorter \cup {Append(s, x) : s \in {t \in shorter : Len(t) = n - 1}, x \in S}

Payloads == SeqsUpTo(PayloadBytes, MaxPayloadLen)

\* length.to_be_bytes() of the ingest client
ToBeBytes(n) ==
    << (n \div 16777216) % 256, (n \div 65536) % 256, (n \div 256) % 256, n % 256 >>

\* the length prefix read with the wrong byte order
FromLeBytes(acc) ==
    acc[1] + acc[2] * 256 + acc[3] * 65536 + acc[4] * 16777216

\* u32::from_be_bytes([accumulator[0], accumulator[1], accumulator[2], accumulator[3]])
FromBeBytes(acc) ==
    acc[1] * 16777216 + acc[2] * 65536 + acc[3] * 256 + acc[4]

\* the bytes the ingest client writes for one payload
EncodeFrame(p) == ToBeBytes(Len(p)) \o p

RECURSIVE EncodeAll(_)
EncodeAll(ps) ==
    IF ps = <<>> THEN <<>> ELSE EncodeFrame(Head(ps)) \o EncodeAll(Tail(ps))

\* a parser that takes the empty payload for a record
ParseFastLax(data) ==
    IF Len(data) <= 1 /\ \A k \in 1 .. Len(data) : data[k] \in Bodies
    THEN [ok |-> TRUE, body |-> 1]
    ELSE [ok |-> FALSE, body |-> 0]

(***************************************************************************)
(* SchemaValidator::parse_fast.  Ok carries the parsed body; the empty     *)
(* payload and every payload that is not one well-formed object are Err.   *)
(***************************************************************************)
ParseFast(data) ==
    IF Len(data) = 1 /\ data[1] \in Bodies
    THEN [ok |-> TRUE, body |-> data[1]]
    ELSE [ok |-> FALSE, body |-> 0]

(***************************************************************************)
(* A LogEntry.  conn and seq record which frame of which connection the    *)
(* entry was parsed from; the program does not read them.                  *)
(***************************************************************************)
LogEntry(b, c, i) == [body |-> b, conn |-> c, seq |-> i]

VARIABLES
    cstate,              \* client c: "idle", "open" (connected), "closed"
    sock,                \* bytes client c has written that the server has not read
    sent,                \* history: payloads client c has framed and written
    apc,                 \* accept loop: "acquire" or "accept" (holds a permit)
    permits,             \* permits available in the semaphore
    hpc,                 \* handler of c: "none", "spawned", "reading", "done"
    accumulator,         \* the handler's accumulation buffer
    parsed,              \* history: payloads the handler passed to parse_fast
    sawClosed,           \* history: the handler of c got Closed from try_send
    queue,               \* the mpsc channel
    offered,             \* history: entries passed to try_send
    droppedRecs,         \* history: entries try_send rejected as Full
    accepted,            \* history: entries the channel took, in the order it took them
    tx_alive,            \* some Sender of the channel exists
    rx_alive,            \* the Receiver of the channel exists
    dropped_messages,    \* the DROPPED_MESSAGES counter
    ingest_count,        \* the INGEST_COUNT counter
    active_connections,  \* the ACTIVE_CONNECTIONS atomic
    fpc,                 \* flusher: "recv", or inside flush: "create", "write", "meta"
    current_batch,       \* StorageEngine.current_batch
    file_counter,        \* StorageEngine.file_counter
    file_path,           \* the path the flush in progress generated
    disk,                \* the storage directory: files in creation order
    now,                 \* what Utc::now() last returned, in ms since 2026-01-15T00:00:00Z
    nfail,               \* I/O failures injected so far
    lastFlush,           \* history: "none", or how the last flush returned
    rewritten,           \* history: batches whose flush failed after the file was closed
    fstage,              \* flusher task: "loop", "final" (flush after the loop), "drop", "exited",
                         \* "killed" (the process ended under it)
    waited,              \* time units the flusher has waited in timeout(flush_interval, rx.recv())
    age,                 \* history: time units since the oldest entry of current_batch was added
    timerFlushes,        \* history: flushes of a non-empty batch started by the timeout
    qpc,                 \* query process: "idle" or "read"
    qfiles,              \* names list_files returned that read_all has not opened yet
    qcount,              \* rows read_all has collected
    qsawPartial,         \* history: read_file opened a file the writer had not closed
    nquery,              \* runs of the query process so far
    qstart,              \* history: the engine as the running query found it
    ppc,                 \* one call of parse_fast: "idle", "input", "parsed", "stored"
    pinput,              \* the JSON object handed to parse_fast
    use_fast_path,       \* SchemaValidator.use_fast_path
    format_asserted,     \* the compiled schema enforces "format": "date-time"
    pres,                \* what parse_fast returned
    prow,                \* the row logs_to_record_batch made of the entry
    prows                \* the rows of the batch the entry was flushed in

clientVars == <<cstate, sock, sent>>
acceptVars == <<apc, permits>>
handlerVars == <<hpc, accumulator, parsed, active_connections, sawClosed>>
queueVars == <<queue, offered, droppedRecs, dropped_messages, accepted, tx_alive, rx_alive>>
flusherVars == <<fstage, waited, age, timerFlushes>>
engineVars == <<fpc, current_batch, file_counter, file_path, disk, ingest_count,
                nfail, lastFlush, rewritten, flusherVars>>
queryVars == <<qpc, qfiles, qcount, qsawPartial, nquery, qstart>>
parseVars == <<ppc, pinput, use_fast_path, format_asserted, pres, prow, prows>>

vars == <<cstate, sock, sent, apc, permits, hpc, accumulator, parsed, queue,
          offered, droppedRecs, dropped_messages, ingest_count,
          active_connections, fpc, current_batch, file_counter, file_path, disk, now,
          nfail, lastFlush, rewritten, qpc, qfiles, qcount,
          qsawPartial, nquery, qstart, sawClosed, accepted, tx_alive, rx_alive,
          fstage, waited, age, timerFlushes, ppc, pinput, use_fast_path,
          format_asserted, pres, prow, prows>>

(***************************************************************************)
(* JSON values: t is the type of the value and v its text, a sequence of    *)
(* character codes (the content of a string, the digits of a number, the   *)
(* members of an object).  A key an object does not have is Absent.        *)
(***************************************************************************)
Absent == [t |-> "absent", v |-> <<>>]
Str(s) == [t |-> "string", v |-> s]
Num(s) == [t |-> "number", v |-> s]
Obj(s) == [t |-> "object", v |-> s]

\* the keys a log object may carry: those of the default schema, and the key
\* serde derives for the field trace_id under rename_all = "camelCase"
LogKeys == {"timestamp", "level", "message", "service", "trace_id", "traceId", "metadata"}

\* the object {}
EmptyObject == [k \in LogKeys |-> Absent]

\* Option<String>, and a nullable utf8 cell
None == [some |-> FALSE, v |-> <<>>]
Some(s) == [some |-> TRUE, v |-> s]
\* Option<OwnedValue>
NoValue == [some |-> FALSE, v |-> Absent]
SomeValue(x) == [some |-> TRUE, v |-> x]

\* struct LogEntry
Entry(ts, lv, msg, svc, tid, md) ==
    [timestamp |-> ts, level |-> lv, message |-> msg, service |-> svc,
     trace_id |-> tid, metadata |-> md]

\* one row of the six columns
Row(ts, lv, msg, svc, tid, md) ==
    [timestamp |-> ts, level |-> lv, message |-> msg, service |-> svc,
     trace_id |-> tid, metadata |-> md]

NoEntry == Entry(<<>>, <<>>, <<>>, None, None, NoValue)
NoRow == Row(0, <<>>, <<>>, None, None, None)

\* the server after LogServer::new and the start of run_async
InitServer ==
    /\ cstate = [c \in Conns |-> "idle"]
    /\ sock = [c \in Conns |-> <<>>]
    /\ sent = [c \in Conns |-> <<>>]
    /\ apc = "acquire"
    /\ permits = MaxConnections
    /\ hpc = [c \in Conns |-> "none"]
    /\ accumulator = [c \in Conns |-> <<>>]
    /\ parsed = [c \in Conns |-> <<>>]
    /\ queue = <<>>
    /\ offered = {}
    /\ droppedRecs = {}
    /\ dropped_messages = 0
    /\ ingest_count = 0
    /\ active_connections = 0
    /\ fpc = "recv"
    /\ current_batch = <<>>
    /\ file_counter = 0
    /\ file_path = <<>>
    /\ disk = <<>>
    /\ now = 0
    /\ nfail = 0
    /\ lastFlush = "none"
    /\ rewritten = <<>>
    /\ qpc = "idle"
    /\ qfiles = <<>>
    /\ qcount = 0
    /\ qsawPartial = FALSE
    /\ nquery = 0
    /\ qstart = [n |-> 0, flushed |-> TRUE]
    /\ sawClosed = [c \in Conns |-> FALSE]
    /\ accepted = <<>>
    /\ tx_alive = TRUE
    /\ rx_alive = TRUE
    /\ fstage = "loop"
    /\ waited = 0
    /\ age = 0
    /\ timerFlushes = 0

\* the state after construction: the server, and no call of parse_fast under study
Init ==
    /\ InitServer
    /\ ppc = "idle"
    /\ pinput = EmptyObject
    /\ use_fast_path = TRUE
    /\ format_asserted = TRUE
    /\ pres = [ok |-> FALSE, entry |-> NoEntry]
    /\ prow = NoRow
    /\ prows = <<>>

\* The reactor thread is free: no blocking flush is in progress, and the flusher is not
\* between its last receive and its end (no await separates them).
ReactorFree == fpc = "recv" /\ fstage \in {"loop", "exited"}

RECURSIVE SumLen(_, _)
SumLen(f, S) ==
    IF S = {} THEN 0
    ELSE LET c == CHOOSE x \in S : TRUE IN Len(f[c]) + SumLen(f, S \ {c})

(***************************************************************************)
(* Clients (src/src/main.rs, Commands::Ingest).                            *)
(***************************************************************************)
ClientConnect(c) ==
    /\ cstate[c] = "idle"
    /\ cstate' = [cstate EXCEPT ![c] = "open"]
    /\ UNCHANGED <<sock, sent, acceptVars, handlerVars, queueVars, engineVars,
                   now, queryVars, parseVars>>

\* write_all(&length.to_be_bytes()); write_all(json_str.as_bytes())
ClientSend(c, p) ==
    /\ cstate[c] = "open"
    /\ SumLen(sent, Conns) < MaxFrames
    /\ sock' = [sock EXCEPT ![c] = @ \o EncodeFrame(p)]
    /\ sent' = [sent EXCEPT ![c] = Append(@, p)]
    /\ UNCHANGED <<cstate, acceptVars, handlerVars, queueVars, engineVars,
                   now, queryVars, parseVars>>

\* the client writes the first k bytes of a frame and closes
ClientCloseMidFrame(c, p, k) ==
    /\ cstate[c] = "open"
    /\ k \in 1 .. (Len(EncodeFrame(p)) - 1)
    /\ sock' = [sock EXCEPT ![c] = @ \o SubSeq(EncodeFrame(p), 1, k)]
    /\ cstate' = [cstate EXCEPT ![c] = "closed"]
    /\ UNCHANGED <<sent, acceptVars, handlerVars, queueVars, engineVars,
                   now, queryVars, parseVars>>

ClientClose(c) ==
    /\ cstate[c] = "open"
    /\ cstate' = [cstate EXCEPT ![c] = "closed"]
    /\ UNCHANGED <<sock, sent, acceptVars, handlerVars, queueVars, engineVars,
                   now, queryVars, parseVars>>

(***************************************************************************)
(* The accept loop of LogServer::run_async.                                *)
(***************************************************************************)
\* semaphore.clone().acquire_owned().await, off by one
AcquirePermitOffByOne ==
    /\ ReactorFree
    /\ tx_alive
    /\ apc = "acquire"
    /\ permits >= 0
    /\ permits' = permits - 1
    /\ apc' = "accept"
    /\ UNCHANGED <<clientVars, handlerVars, queueVars, engineVars, now, queryVars, parseVars>>

\* let permit = semaphore.clone().acquire_owned().await?, in the loop that holds tx
AcquirePermit ==
    /\ ReactorFree
    /\ tx_alive
    /\ apc = "acquire"
    /\ permits > 0
    /\ permits' = permits - 1
    /\ apc' = "accept"
    /\ UNCHANGED <<clientVars, handlerVars, queueVars, engineVars, now, queryVars, parseVars>>

\* listener.accept() returns Ok(stream): the handler task is spawned with the permit
Accept(c) ==
    /\ ReactorFree
    /\ apc = "accept"
    /\ cstate[c] # "idle"
    /\ hpc[c] = "none"
    /\ hpc' = [hpc EXCEPT ![c] = "spawned"]
    /\ apc' = "acquire"
    /\ UNCHANGED <<clientVars, permits, accumulator, parsed, active_connections,
                   sawClosed, queueVars, engineVars, now, queryVars, parseVars>>

\* a failed accept that keeps its permit
AcceptFailKeepsPermit ==
    /\ ReactorFree
    /\ apc = "accept"
    /\ permits' = permits
    /\ apc' = "acquire"
    /\ UNCHANGED <<clientVars, handlerVars, queueVars, engineVars, now, queryVars, parseVars>>

\* listener.accept() returns Err: the permit goes out of scope and is released
AcceptFail ==
    /\ ReactorFree
    /\ apc = "accept"
    /\ permits' = permits + 1
    /\ apc' = "acquire"
    /\ UNCHANGED <<clientVars, handlerVars, queueVars, engineVars, now, queryVars, parseVars>>

(***************************************************************************)
(* The handler task and handle_connection.                                 *)
(***************************************************************************)
\* the task's first poll: fetch_add on the gauge, then handle_connection awaits its first read
HandlerStart(c) ==
    /\ ReactorFree
    /\ hpc[c] = "spawned"
    /\ hpc' = [hpc EXCEPT ![c] = "reading"]
    /\ active_connections' = active_connections + 1
    /\ UNCHANGED <<clientVars, acceptVars, accumulator, parsed, sawClosed, queueVars,
                   engineVars, now, queryVars, parseVars>>

\* tx.try_send(log): Ok, Err(Full) or, once the receiver is gone, Err(Closed)
\* a channel that overwrites its newest buffered record when it is full
TrySendReplace(q, log) ==
    IF ~rx_alive THEN [ok |-> FALSE, closed |-> TRUE, q |-> q]
    ELSE IF Len(q) < QueueCap
    THEN [ok |-> TRUE, closed |-> FALSE, q |-> Append(q, log)]
    ELSE [ok |-> TRUE, closed |-> FALSE, q |-> Append(SubSeq(q, 1, Len(q) - 1), log)]

\* a channel that holds one record more than its capacity
TrySendOverCap(q, log) ==
    IF ~rx_alive THEN [ok |-> FALSE, closed |-> TRUE, q |-> q]
    ELSE IF Len(q) < QueueCap + 1
    THEN [ok |-> TRUE, closed |-> FALSE, q |-> Append(q, log)]
    ELSE [ok |-> FALSE, closed |-> FALSE, q |-> q]

TrySend(q, log) ==
    IF ~rx_alive THEN [ok |-> FALSE, closed |-> TRUE, q |-> q]
    ELSE IF Len(q) < QueueCap
    THEN [ok |-> TRUE, closed |-> FALSE, q |-> Append(q, log)]
    ELSE [ok |-> FALSE, closed |-> FALSE, q |-> q]

\* The state the framing loop works on.
DrainState(acc, q) ==
    [acc |-> acc, q |-> q, passed |-> <<>>, offered |-> {}, dropped |-> {},
     stop |-> FALSE]

\* a handler that gives up the rest of the buffer on a parse error
ProcessFrameStopOnError(c, st, msg, i) ==
    LET r == ParseFast(msg)
        st1 == [st EXCEPT !.passed = Append(@, msg)] IN
    IF r.ok
    THEN LET log == LogEntry(r.body, c, i)
             s == TrySend(st1.q, log) IN
         IF s.closed THEN [st1 EXCEPT !.offered = @ \cup {log}, !.stop = TRUE]
         ELSE [st1 EXCEPT !.q = s.q,
                          !.offered = @ \cup {log},
                          !.dropped = IF s.ok THEN @ ELSE @ \cup {log}]
    ELSE [st1 EXCEPT !.acc = <<>>]

\* a handler that counts the drop and enqueues the entry all the same
ProcessFrameEnqueueAnyway(c, st, msg, i) ==
    LET r == ParseFast(msg)
        st1 == [st EXCEPT !.passed = Append(@, msg)] IN
    IF r.ok
    THEN LET log == LogEntry(r.body, c, i)
             s == TrySend(st1.q, log) IN
         IF s.closed THEN [st1 EXCEPT !.offered = @ \cup {log}, !.stop = TRUE]
         ELSE [st1 EXCEPT !.q = Append(st1.q, log),
                          !.offered = @ \cup {log},
                          !.dropped = IF s.ok THEN @ ELSE @ \cup {log}]
    ELSE st1

\* a handler that drops on a full queue without counting
ProcessFrameNoCount(c, st, msg, i) ==
    LET r == ParseFast(msg)
        st1 == [st EXCEPT !.passed = Append(@, msg)] IN
    IF r.ok
    THEN LET log == LogEntry(r.body, c, i)
             s == TrySend(st1.q, log) IN
         IF s.closed THEN [st1 EXCEPT !.offered = @ \cup {log}, !.stop = TRUE]
         ELSE [st1 EXCEPT !.q = s.q,
                          !.offered = @ \cup {log}]
    ELSE st1

\* What the server counts of the frames parse_fast rejects: the Err arm of the match
\* only logs a warning, and src/src/metrics.rs names no counter for it.
FailureCounter == 0

\* match validator.parse_fast(&mut msg_bytes) { Ok(log) => match tx.try_send(log) ..., Err(e) => warn }
\* msg is frame number i of connection c; stop is the break of the Err(Closed) arm
ProcessFrame(c, st, msg, i) ==
    LET r == ParseFast(msg)
        st1 == [st EXCEPT !.passed = Append(@, msg)] IN
    IF r.ok
    THEN LET log == LogEntry(r.body, c, i)
             s == TrySend(st1.q, log) IN
         IF s.closed THEN [st1 EXCEPT !.offered = @ \cup {log}, !.stop = TRUE]
         ELSE [st1 EXCEPT !.q = s.q,
                          !.offered = @ \cup {log},
                          !.dropped = IF s.ok THEN @ ELSE @ \cup {log}]
    ELSE st1

\* the inner loop of handle_connection: drain every complete frame of the accumulator
RECURSIVE Drain(_, _, _)
Drain(c, st, i) ==
    IF Len(st.acc) < LenBytes THEN st
    ELSE LET length == FromBeBytes(st.acc) IN
         IF Len(st.acc) < LenBytes + length THEN st
         ELSE LET msg == SubSeq(st.acc, LenBytes + 1, LenBytes + length)
                  rest == SubSeq(st.acc, LenBytes + length + 1, Len(st.acc))
                  st1 == ProcessFrame(c, [st EXCEPT !.acc = rest], msg, i) IN
              IF st1.stop THEN st1 ELSE Drain(c, st1, i + 1)

\* a handler that pushes the records it parsed onto the engine's batch itself
HandlerReadAddsLog(c, n) ==
    /\ ReactorFree
    /\ hpc[c] = "reading"
    /\ n \in 1 .. Min(Len(sock[c]), ReadBufSize)
    /\ LET acc == accumulator[c] \o SubSeq(sock[c], 1, n)
           st == Drain(c, DrainState(acc, queue), Len(parsed[c]) + 1) IN
       /\ sock' = [sock EXCEPT ![c] = SubSeq(@, n + 1, Len(@))]
       /\ accumulator' = [accumulator EXCEPT ![c] = st.acc]
       /\ parsed' = [parsed EXCEPT ![c] = @ \o st.passed]
       /\ current_batch' = current_batch \o SubSeq(st.q, Len(queue) + 1, Len(st.q))
       /\ offered' = offered \cup st.offered
       /\ droppedRecs' = droppedRecs \cup st.dropped
       /\ dropped_messages' = dropped_messages + Cardinality(st.dropped)
       /\ sawClosed' = [sawClosed EXCEPT ![c] = @ \/ st.stop]
    /\ UNCHANGED <<cstate, sent, acceptVars, hpc, active_connections, tx_alive, rx_alive,
                   queue, accepted, fpc, file_counter, file_path, disk, ingest_count,
                   nfail, lastFlush, rewritten, flusherVars, now, queryVars, parseVars>>

\* one pass of the outer loop: stream.read returns n > 0 bytes
HandlerRead(c, n) ==
    /\ ReactorFree
    /\ hpc[c] = "reading"
    /\ n \in 1 .. Min(Len(sock[c]), ReadBufSize)
    /\ LET acc == accumulator[c] \o SubSeq(sock[c], 1, n)
           st == Drain(c, DrainState(acc, queue), Len(parsed[c]) + 1) IN
       /\ sock' = [sock EXCEPT ![c] = SubSeq(@, n + 1, Len(@))]
       /\ accumulator' = [accumulator EXCEPT ![c] = st.acc]
       /\ parsed' = [parsed EXCEPT ![c] = @ \o st.passed]
       /\ queue' = st.q
       /\ offered' = offered \cup st.offered
       /\ droppedRecs' = droppedRecs \cup st.dropped
       /\ dropped_messages' = dropped_messages + Cardinality(st.dropped)
       /\ accepted' = accepted \o SubSeq(st.q, Len(queue) + 1, Len(st.q))
       /\ sawClosed' = [sawClosed EXCEPT ![c] = @ \/ st.stop]
    /\ UNCHANGED <<cstate, sent, acceptVars, hpc, active_connections, tx_alive, rx_alive,
                   engineVars, now, queryVars, parseVars>>

\* a task that owns the only sender and drops it when it returns
HandlerReturnDropsSender(c) ==
    /\ hpc' = [hpc EXCEPT ![c] = "done"]
    /\ active_connections' = active_connections - 1
    /\ permits' = permits + 1
    /\ tx_alive' = FALSE
    /\ UNCHANGED <<clientVars, apc, accumulator, parsed, sawClosed, queue, offered,
                   droppedRecs, dropped_messages, accepted, rx_alive, engineVars, now,
                   queryVars, parseVars>>

\* a task that drops the permit and leaves the gauge as it is
HandlerReturnNoDecrement(c) ==
    /\ hpc' = [hpc EXCEPT ![c] = "done"]
    /\ permits' = permits + 1
    /\ UNCHANGED <<clientVars, apc, accumulator, parsed, active_connections, sawClosed,
                   queueVars, engineVars, now, queryVars, parseVars>>

\* handle_connection returns; the task decrements the gauge and drops the permit
HandlerReturn(c) ==
    /\ hpc' = [hpc EXCEPT ![c] = "done"]
    /\ active_connections' = active_connections - 1
    /\ permits' = permits + 1
    /\ UNCHANGED <<clientVars, apc, accumulator, parsed, sawClosed, queueVars,
                   engineVars, now, queryVars, parseVars>>

\* a handler that counts what is left in the accumulator at the end of the
\* stream as a dropped message
HandlerEofCountsRest(c) ==
    /\ ReactorFree
    /\ hpc[c] = "reading"
    /\ cstate[c] = "closed"
    /\ sock[c] = <<>>
    /\ hpc' = [hpc EXCEPT ![c] = "done"]
    /\ active_connections' = active_connections - 1
    /\ permits' = permits + 1
    /\ dropped_messages' = dropped_messages + (IF accumulator[c] = <<>> THEN 0 ELSE 1)
    /\ UNCHANGED <<clientVars, apc, accumulator, parsed, sawClosed, queue, offered,
                   droppedRecs, accepted, tx_alive, rx_alive, engineVars, now,
                   queryVars, parseVars>>

\* stream.read returns 0: the peer closed and every byte was read
HandlerEof(c) ==
    /\ ReactorFree
    /\ hpc[c] = "reading"
    /\ cstate[c] = "closed"
    /\ sock[c] = <<>>
    /\ HandlerReturn(c)

\* stream.read returns an error (let n = res?)
HandlerIoError(c) ==
    /\ ReactorFree
    /\ hpc[c] = "reading"
    /\ HandlerReturn(c)

(***************************************************************************)
(* File names (StorageEngine::generate_file_path).  A name is the sequence *)
(* of its character codes.                                                 *)
(***************************************************************************)
Digit(k) == 48 + k                                       \* the character of digit k
Underscore == <<95>>                                     \* "_"
Dot == <<46>>                                            \* "."
LogsPrefix == <<108, 111, 103, 115, 95>>                 \* "logs_"
ParquetExt == <<112, 97, 114, 113, 117, 101, 116>>       \* "parquet"
\* %Y%m%d of the day the clock starts in: "20260115"
DateDigits == <<50, 48, 50, 54, 48, 49, 49, 53>>

\* {} of format!: a u64 in decimal, without padding
RECURSIVE Decimal(_)
Decimal(n) ==
    IF n < 10 THEN <<Digit(n)>> ELSE Append(Decimal(n \div 10), Digit(n % 10))

\* a number zero-padded to w digits, as chrono prints %H, %M, %S, %3f
RECURSIVE Padded(_, _)
Padded(n, w) ==
    IF w = 0 THEN <<>> ELSE Append(Padded(n \div 10, w - 1), Digit(n % 10))

\* now.format("%Y%m%d_%H%M%S_%3f")
FormatTime(t) ==
    LET secs == t \div 1000 IN
    DateDigits \o Underscore
        \o Padded((secs \div 3600) % 24, 2) \o Padded((secs \div 60) % 60, 2)
        \o Padded(secs % 60, 2) \o Underscore \o Padded(t % 1000, 3)

\* a file name made of the time alone
FileNameNoCounter(t, n) ==
    LogsPrefix \o FormatTime(t) \o Underscore \o Decimal(0) \o Dot \o ParquetExt

\* format!("logs_{}_{}.parquet", now.format(...), self.file_counter)
FileName(t, n) ==
    LogsPrefix \o FormatTime(t) \o Underscore \o Decimal(n) \o Dot \o ParquetExt

\* path.extension() == Some("parquet")
HasParquetExt(name) ==
    /\ Len(name) > Len(ParquetExt) + 1
    /\ SubSeq(name, Len(name) - Len(ParquetExt) + 1, Len(name)) = ParquetExt
    /\ <<name[Len(name) - Len(ParquetExt)]>> = Dot

\* the order of Vec<PathBuf>::sort on paths of one directory: byte-wise on the names
RECURSIVE LexLess(_, _)
LexLess(a, b) ==
    IF b = <<>> THEN FALSE
    ELSE IF a = <<>> THEN TRUE
    ELSE IF Head(a) # Head(b) THEN Head(a) < Head(b)
    ELSE LexLess(Tail(a), Tail(b))

(***************************************************************************)
(* The storage directory.  A file has a name, the rows a reader finds in   *)
(* it, and closed = the writer wrote the footer (ArrowWriter::close).      *)
(***************************************************************************)
FileIndex(d, name) == {i \in 1 .. Len(d) : d[i].name = name}

\* File::create(path): a new empty file, or the old one truncated
CreateFile(d, name) ==
    IF FileIndex(d, name) = {}
    THEN Append(d, [name |-> name, rows |-> <<>>, closed |-> FALSE])
    ELSE [i \in 1 .. Len(d) |->
            IF d[i].name = name THEN [d[i] EXCEPT !.rows = <<>>, !.closed = FALSE]
            ELSE d[i]]

\* a conversion that loses the last log of the batch
LogsToRecordBatchShort(logs) == [i \in 1 .. Len(logs) - 1 |-> logs[i]]

\* a conversion that writes the batch last log first
LogsToRecordBatchReversed(logs) == [i \in 1 .. Len(logs) |-> logs[Len(logs) + 1 - i]]

\* logs_to_record_batch: one row per log, in the order of the batch
LogsToRecordBatch(logs) == [i \in 1 .. Len(logs) |-> logs[i]]

\* writer.write(&batch); writer.close() on the file File::create opened
WriteAndClose(d, name, batch) ==
    [i \in 1 .. Len(d) |->
        IF d[i].name = name THEN [d[i] EXCEPT !.rows = batch, !.closed = TRUE]
        ELSE d[i]]

Names(d) == [i \in 1 .. Len(d) |-> d[i].name]

\* list_files of StorageEngine and of QueryEngine: the .parquet names, sorted
ListFiles(d) ==
    SortSeq(SelectSeq(Names(d), HasParquetExt), LexLess)

(***************************************************************************)
(* The storage engine (StorageEngine::add_log, flush) as the flusher task  *)
(* runs it.  flush is three blocking steps, so that what the directory     *)
(* holds between them is visible to the query process.                     *)
(***************************************************************************)
Range(s) == {s[i] : i \in 1 .. Len(s)}

\* an add_log that flushes only once the batch is above its size
AddLogLate(log) ==
    /\ current_batch' = Append(current_batch, log)
    /\ ingest_count' = ingest_count + 1
    /\ fpc' = IF Len(current_batch) + 1 > BatchSize THEN "create" ELSE "recv"
    /\ lastFlush' = "none"
    /\ age' = IF current_batch = <<>> THEN 0 ELSE age
    /\ waited' = 0

\* an add_log that counts a record only when it starts no flush
AddLogCountsUnflushed(log) ==
    /\ current_batch' = Append(current_batch, log)
    /\ ingest_count' = ingest_count + (IF Len(current_batch) + 1 >= BatchSize THEN 0 ELSE 1)
    /\ fpc' = IF Len(current_batch) + 1 >= BatchSize THEN "create" ELSE "recv"
    /\ lastFlush' = "none"
    /\ age' = IF current_batch = <<>> THEN 0 ELSE age
    /\ waited' = 0

\* add_log: push, count, and flush if the batch is full
AddLog(log) ==
    /\ current_batch' = Append(current_batch, log)
    /\ ingest_count' = ingest_count + 1
    /\ fpc' = IF Len(current_batch) + 1 >= BatchSize THEN "create" ELSE "recv"
    /\ lastFlush' = "none"
    /\ age' = IF current_batch = <<>> THEN 0 ELSE age
    /\ waited' = 0

\* Ok(Some(log)) => storage.add_log(log)
FlusherRecv ==
    /\ ReactorFree
    /\ queue # <<>>
    /\ file_counter < MaxFiles
    /\ fstage = "loop"
    /\ queue' = Tail(queue)
    /\ AddLog(Head(queue))
    /\ UNCHANGED <<clientVars, acceptVars, handlerVars, offered, droppedRecs,
                   dropped_messages, accepted, tx_alive, rx_alive, file_counter,
                   file_path, disk, nfail, rewritten, fstage, timerFlushes, now,
                   queryVars, parseVars>>

\* a timeout arm that does not flush
FlusherTimeoutNoFlush ==
    /\ ReactorFree
    /\ queue = <<>>
    /\ file_counter < MaxFiles
    /\ fstage = "loop"
    /\ tx_alive
    /\ waited' = 0
    /\ age' = 0
    /\ UNCHANGED <<clientVars, acceptVars, handlerVars, queueVars, fpc, lastFlush,
                   timerFlushes, current_batch, file_counter, file_path, disk,
                   ingest_count, nfail, rewritten, fstage, now, queryVars, parseVars>>

\* Err(_) => storage.flush(): the receive timed out on an empty channel that has a sender;
\* the next pass of the loop arms a new timeout
FlusherTimeout ==
    /\ ReactorFree
    /\ queue = <<>>
    /\ file_counter < MaxFiles
    /\ fstage = "loop"
    /\ tx_alive
    /\ fpc' = IF current_batch = <<>> THEN "recv" ELSE "create"
    /\ lastFlush' = IF current_batch = <<>> THEN "ok" ELSE lastFlush
    /\ timerFlushes' = IF current_batch = <<>> THEN timerFlushes ELSE timerFlushes + 1
    /\ waited' = 0
    /\ UNCHANGED <<clientVars, acceptVars, handlerVars, queueVars, current_batch,
                   file_counter, file_path, disk, ingest_count, nfail, rewritten,
                   fstage, age, now, queryVars, parseVars>>

\* flush returns Err: the ? operator leaves before current_batch.clear()
FlushFails ==
    /\ nfail < MaxFail
    /\ nfail' = nfail + 1
    /\ fpc' = "recv"
    /\ lastFlush' = "err"
    /\ UNCHANGED current_batch

\* a flush that leaves the counter where it is
FlushCreateNoAdvance(t) ==
    /\ fpc = "create"
    /\ now' = t
    /\ file_counter' = file_counter
    /\ file_path' = FileName(t, file_counter)
    /\ \/ /\ disk' = CreateFile(disk, FileName(t, file_counter))
          /\ fpc' = "write"
          /\ UNCHANGED <<nfail, lastFlush, current_batch>>
       \/ /\ FlushFails
          /\ UNCHANGED disk
    /\ UNCHANGED <<clientVars, acceptVars, handlerVars, queueVars, ingest_count,
                   rewritten, flusherVars, queryVars, parseVars>>

\* generate_file_path, logs_to_record_batch, then File::create(path);
\* Utc::now() returns t
FlushCreate(t) ==
    /\ fpc = "create"
    /\ now' = t
    /\ file_counter' = file_counter + 1
    /\ file_path' = FileName(t, file_counter)
    /\ \/ /\ disk' = CreateFile(disk, FileName(t, file_counter))
          /\ fpc' = "write"
          /\ UNCHANGED <<nfail, lastFlush, current_batch>>
       \/ /\ FlushFails
          /\ UNCHANGED disk
    /\ UNCHANGED <<clientVars, acceptVars, handlerVars, queueVars, ingest_count,
                   rewritten, flusherVars, queryVars, parseVars>>

\* ArrowWriter::try_new, writer.write(&batch), writer.close()
FlushWrite ==
    /\ fpc = "write"
    /\ \/ /\ disk' = WriteAndClose(disk, file_path, LogsToRecordBatch(current_batch))
          /\ fpc' = "meta"
          /\ UNCHANGED <<nfail, lastFlush, current_batch>>
       \/ /\ FlushFails
          /\ UNCHANGED disk
    /\ UNCHANGED <<clientVars, acceptVars, handlerVars, queueVars, file_counter,
                   file_path, ingest_count, rewritten, flusherVars, now, queryVars, parseVars>>

\* std::fs::metadata(path), the metrics, then current_batch.clear()
FlushMeta ==
    /\ fpc = "meta"
    /\ \/ /\ current_batch' = <<>>
          /\ fpc' = "recv"
          /\ lastFlush' = "ok"
          /\ age' = 0
          /\ UNCHANGED <<nfail, rewritten>>
       \/ /\ FlushFails
          /\ rewritten' = rewritten \o current_batch
          /\ UNCHANGED age
    /\ UNCHANGED <<clientVars, acceptVars, handlerVars, queueVars, file_counter,
                   file_path, disk, ingest_count, fstage, waited, timerFlushes, now,
                   queryVars, parseVars>>

\* engine.add_log(log) called on the engine directly, as the unit tests do
EngineAddLog(limit) ==
    /\ ReactorFree
    /\ ingest_count < limit
    /\ AddLog(LogEntry(1, 0, ingest_count + 1))
    /\ UNCHANGED <<clientVars, acceptVars, handlerVars, queueVars, file_counter,
                   file_path, disk, nfail, rewritten, fstage, timerFlushes, now,
                   queryVars, parseVars>>

\* engine.flush() called on the engine directly
EngineFlush ==
    /\ ReactorFree
    /\ current_batch # <<>>
    /\ fpc' = "create"
    /\ UNCHANGED <<clientVars, acceptVars, handlerVars, queueVars, current_batch,
                   file_counter, file_path, disk, ingest_count, nfail, lastFlush,
                   rewritten, flusherVars, now, queryVars, parseVars>>

(***************************************************************************)
(* Time.  tokio::time::timeout(flush_interval, rx.recv()) is armed anew on *)
(* every pass of the flusher's loop.  Time passes while the flusher waits  *)
(* in it: a record in the channel is received without delay, and the       *)
(* timeout fires when the interval is over.  The time a flush takes is not *)
(* counted.                                                                *)
(***************************************************************************)
Tick ==
    /\ ReactorFree
    /\ fstage = "loop"
    /\ queue = <<>>
    /\ waited < FlushInterval
    /\ waited' = waited + 1
    /\ age' = IF current_batch = <<>> THEN age ELSE age + 1
    /\ UNCHANGED <<clientVars, acceptVars, handlerVars, queueVars, fpc, current_batch,
                   file_counter, file_path, disk, ingest_count, nfail, lastFlush,
                   rewritten, fstage, timerFlushes, now, queryVars, parseVars>>

\* the timeout of the pass in progress is over
TimerExpired == waited >= FlushInterval

(***************************************************************************)
(* The ends of the channel.  run_async keeps tx and the flusher keeps rx,  *)
(* so neither end closes in a run of the server as it is; the arms of the  *)
(* flusher and of the handler for a closed channel are taken only when the *)
(* surroundings of the task drop the other end.                            *)
(***************************************************************************)
\* every Sender is gone: no handler is left and the accept loop has dropped tx
SendersDropped ==
    /\ ReactorFree
    /\ fstage = "loop"
    /\ tx_alive
    /\ apc = "acquire"
    /\ \A c \in Conns : hpc[c] \in {"none", "done"}
    /\ tx_alive' = FALSE
    /\ UNCHANGED <<clientVars, acceptVars, handlerVars, queue, offered, droppedRecs,
                   dropped_messages, accepted, rx_alive, engineVars, now, queryVars, parseVars>>

\* the flusher leaves its loop although records are still buffered
FlusherClosedEarly ==
    /\ ReactorFree
    /\ fstage = "loop"
    /\ ~tx_alive
    /\ fstage' = "final"
    /\ fpc' = IF current_batch = <<>> THEN "recv" ELSE "create"
    /\ UNCHANGED <<clientVars, acceptVars, handlerVars, queueVars, current_batch,
                   file_counter, file_path, disk, ingest_count, nfail, lastFlush,
                   rewritten, waited, age, timerFlushes, now, queryVars, parseVars>>

\* Ok(None) => break: recv on a closed and empty channel; then let _ = storage.flush()
FlusherClosed ==
    /\ ReactorFree
    /\ fstage = "loop"
    /\ ~tx_alive
    /\ queue = <<>>
    /\ fstage' = "final"
    /\ fpc' = IF current_batch = <<>> THEN "recv" ELSE "create"
    /\ UNCHANGED <<clientVars, acceptVars, handlerVars, queueVars, current_batch,
                   file_counter, file_path, disk, ingest_count, nfail, lastFlush,
                   rewritten, waited, age, timerFlushes, now, queryVars, parseVars>>

\* the async block ends: rx is dropped, and StorageEngine::drop flushes once more
FlusherDropEngine ==
    /\ fstage = "final"
    /\ fpc = "recv"
    /\ fstage' = "drop"
    /\ rx_alive' = FALSE
    /\ fpc' = IF current_batch = <<>> THEN "recv" ELSE "create"
    /\ UNCHANGED <<clientVars, acceptVars, handlerVars, queue, offered, droppedRecs,
                   dropped_messages, accepted, tx_alive, current_batch, file_counter,
                   file_path, disk, ingest_count, nfail, lastFlush, rewritten, waited,
                   age, timerFlushes, now, queryVars, parseVars>>

\* the flusher task is over
FlusherExit ==
    /\ fstage = "drop"
    /\ fpc = "recv"
    /\ fstage' = "exited"
    /\ UNCHANGED <<clientVars, acceptVars, handlerVars, queueVars, fpc, current_batch,
                   file_counter, file_path, disk, ingest_count, nfail, lastFlush,
                   rewritten, waited, age, timerFlushes, now, queryVars, parseVars>>

\* the flusher task ends by a panic below add_log or flush: unwinding drops rx with
\* what it buffers, and drops the engine, whose Drop flushes
FlusherAborts ==
    /\ ReactorFree
    /\ fstage = "loop"
    /\ fstage' = "drop"
    /\ rx_alive' = FALSE
    /\ queue' = <<>>
    /\ fpc' = IF current_batch = <<>> THEN "recv" ELSE "create"
    /\ UNCHANGED <<clientVars, acceptVars, handlerVars, offered, droppedRecs,
                   dropped_messages, accepted, tx_alive, current_batch, file_counter,
                   file_path, disk, ingest_count, nfail, lastFlush, rewritten, waited,
                   age, timerFlushes, now, queryVars, parseVars>>

\* the server stops: the process is ended by a signal, for which no handler is
\* installed, or by std::process::exit; no task is resumed and no destructor
\* runs.  Taken here between two flushes.
ServerKilled ==
    /\ ReactorFree
    /\ fstage = "loop"
    /\ fstage' = "killed"
    /\ UNCHANGED <<clientVars, acceptVars, handlerVars, queueVars, fpc, current_batch,
                   file_counter, file_path, disk, ingest_count, nfail, lastFlush,
                   rewritten, waited, age, timerFlushes, now, queryVars, parseVars>>

(***************************************************************************)
(* A client that writes a length prefix above the bound the format sets.   *)
(***************************************************************************)
ClientSendOversize(c) ==
    /\ cstate[c] = "open"
    /\ sock[c] = <<>>
    /\ accumulator[c] = <<>>
    /\ sock' = [sock EXCEPT ![c] = ToBeBytes(MaxFrameLen + 1)]
    /\ UNCHANGED <<cstate, sent, acceptVars, handlerVars, queueVars, engineVars,
                   now, queryVars, parseVars>>

(***************************************************************************)
(* The query process (QueryEngine::count_logs): list_files, then read_file *)
(* on each name, skipping a file it cannot read.                           *)
(***************************************************************************)
\* let files = self.list_files()?
QueryList ==
    /\ qpc = "idle"
    /\ nquery < MaxQueries
    /\ nquery' = nquery + 1
    /\ qstart' = [n |-> ingest_count,
                  flushed |-> current_batch = <<>> /\ fpc = "recv" /\ rewritten = <<>>]
    /\ qfiles' = ListFiles(disk)
    /\ qcount' = 0
    /\ qpc' = "read"
    /\ UNCHANGED <<clientVars, acceptVars, handlerVars, queueVars, engineVars,
                   now, qsawPartial, parseVars>>

\* a reader that takes the first row of a file for the whole file
ReadFileFirstRow(d, name) ==
    LET f == d[CHOOSE i \in FileIndex(d, name) : TRUE] IN
    IF FileIndex(d, name) # {} /\ f.closed
    THEN [ok |-> TRUE, rows |-> SubSeq(f.rows, 1, 1)]
    ELSE [ok |-> FALSE, rows |-> <<>>]

\* read_file(path): Ok(batches) of a closed file, Err of a file without footer
ReadFile(d, name) ==
    LET f == d[CHOOSE i \in FileIndex(d, name) : TRUE] IN
    IF FileIndex(d, name) # {} /\ f.closed
    THEN [ok |-> TRUE, rows |-> f.rows]
    ELSE [ok |-> FALSE, rows |-> <<>>]

\* one pass of the loop of read_all
QueryRead ==
    /\ qpc = "read"
    /\ qfiles # <<>>
    /\ LET r == ReadFile(disk, Head(qfiles)) IN
       /\ qcount' = qcount + Len(r.rows)
       /\ qsawPartial' = (qsawPartial \/ ~r.ok)
    /\ qfiles' = Tail(qfiles)
    /\ UNCHANGED <<clientVars, acceptVars, handlerVars, queueVars, engineVars,
                   now, qpc, nquery, qstart, parseVars>>

\* read_all returns; count_logs sums the rows
QueryDone ==
    /\ qpc = "read"
    /\ qfiles = <<>>
    /\ qpc' = "idle"
    /\ UNCHANGED <<clientVars, acceptVars, handlerVars, queueVars, engineVars,
                   now, qfiles, qcount, qsawPartial, nquery, qstart,
                   parseVars>>

(***************************************************************************)
(* One JSON object through SchemaValidator::parse_fast and the row          *)
(* conversion of StorageEngine::logs_to_record_batch.                      *)
(***************************************************************************)
Word == <<120>>                                          \* "x"
Seven == <<55>>                                          \* "7"
Member == <<34, 107, 34, 58, 49>>                        \* "k":1
Quote == <<34>>
LBrace == <<123>>
RBrace == <<125>>

\* the RFC-3339 text of the instant ms milliseconds after the epoch, abridged
\* to a "T" and the number
Rfc3339(ms) == <<84>> \o Decimal(ms)

\* DateTime::parse_from_rfc3339(s), then timestamp_millis()
ParseFromRfc3339(s) ==
    IF \E n \in 0 .. MaxMillis : s = Rfc3339(n)
    THEN [ok |-> TRUE, ms |-> CHOOSE n \in 0 .. MaxMillis : s = Rfc3339(n)]
    ELSE [ok |-> FALSE, ms |-> 0]

\* Display of a JSON value: its text
JsonText(x) ==
    IF x.t = "string" THEN Quote \o x.v \o Quote
    ELSE IF x.t = "object" THEN LBrace \o x.v \o RBrace
    ELSE x.v

\* the objects tried
TimestampValues == {Absent, Num(Seven), Str(Word), Str(Rfc3339(MaxMillis))}
TextValues == {Absent, Num(Seven), Str(<<>>), Str(Word)}
OptionalValues == {Absent, Num(Seven), Str(Word)}
MetadataValues == {Absent, Str(Word), Obj(Member)}
InputObjects ==
    [timestamp : TimestampValues, level : TextValues, message : TextValues,
     service : OptionalValues, trace_id : OptionalValues, traceId : OptionalValues,
     metadata : MetadataValues]

\* Option<String> from a key: absent is None, a string is Some
OptionOf(x) == IF x.t = "string" THEN Some(x.v) ELSE None

\* the Deserialize serde derives for LogEntry under rename_all = "camelCase":
\* three required strings, service and traceId optional strings, metadata any
\* value; keys that name no field, trace_id among them, are ignored
Deserialize(obj) ==
    IF /\ \A k \in {"timestamp", "level", "message"} : obj[k].t = "string"
       /\ \A k \in {"service", "traceId"} : obj[k].t \in {"absent", "string"}
    THEN [ok |-> TRUE,
          entry |-> Entry(obj.timestamp.v, obj.level.v, obj.message.v,
                          OptionOf(obj.service), OptionOf(obj.traceId),
                          IF obj.metadata.t = "absent" THEN NoValue
                          ELSE SomeValue(obj.metadata))]
    ELSE [ok |-> FALSE, entry |-> NoEntry]

\* validate with the default schema: the three required keys, the types of the
\* properties, and the date-time format where the compiled schema asserts it
Validate(obj, fmt) ==
    /\ \A k \in {"timestamp", "level", "message"} : obj[k].t # "absent"
    /\ \A k \in {"timestamp", "level", "message", "service", "trace_id"} :
           obj[k].t \in {"absent", "string"}
    /\ obj.metadata.t \in {"absent", "object"}
    /\ (fmt /\ obj.timestamp.t = "string") => ParseFromRfc3339(obj.timestamp.v).ok

\* parse_fast on the text of obj
ParseFastEntry(obj, fast, fmt) ==
    IF fast THEN Deserialize(obj)
    ELSE IF Validate(obj, fmt) THEN Deserialize(obj)
    ELSE [ok |-> FALSE, entry |-> NoEntry]

\* a conversion that stamps the first instant on an entry whose timestamp does
\* not parse
RowOfStampsFailure(e) ==
    Row(IF ParseFromRfc3339(e.timestamp).ok THEN ParseFromRfc3339(e.timestamp).ms ELSE 1,
        e.level, e.message, e.service, e.trace_id,
        IF e.metadata.some THEN Some(JsonText(e.metadata.v)) ELSE None)

\* the cells logs_to_record_batch appends for one entry
RowOf(e) ==
    Row(ParseFromRfc3339(e.timestamp).ms, e.level, e.message, e.service, e.trace_id,
        IF e.metadata.some THEN Some(JsonText(e.metadata.v)) ELSE None)

\* logs_to_record_batch on entries: one row for each, in order
EntriesToRecordBatch(logs) == [i \in 1 .. Len(logs) |-> RowOf(logs[i])]

\* an entry with a well-formed timestamp that shares the batch
Companion == Entry(Rfc3339(1), Word, Word, Some(Word), None, NoValue)

\* validator.parse_fast(&mut msg_data)
ParseCall ==
    /\ ppc = "input"
    /\ pres' = ParseFastEntry(pinput, use_fast_path, format_asserted)
    /\ ppc' = "parsed"
    /\ UNCHANGED <<clientVars, acceptVars, handlerVars, queueVars, engineVars, now,
                   queryVars, pinput, use_fast_path, format_asserted, prow, prows>>

\* the entry reaches a batch, between two others, and logs_to_record_batch
StoreRow ==
    /\ ppc = "parsed"
    /\ pres.ok
    /\ prow' = RowOf(pres.entry)
    /\ prows' = EntriesToRecordBatch(<<Companion, pres.entry, Companion>>)
    /\ ppc' = "stored"
    /\ UNCHANGED <<clientVars, acceptVars, handlerVars, queueVars, engineVars, now,
                   queryVars, pinput, use_fast_path, format_asserted, pres>>

\* any object, either path, a schema that asserts formats or not
InitParse ==
    /\ InitServer
    /\ ppc = "input"
    /\ pinput \in InputObjects
    /\ use_fast_path \in BOOLEAN
    /\ format_asserted \in BOOLEAN
    /\ pres = [ok |-> FALSE, entry |-> NoEntry]
    /\ prow = NoRow
    /\ prows = <<>>

ParseNext ==
    \/ ParseCall
    \/ StoreRow

SpecParse == InitParse /\ [][ParseNext]_vars

(***************************************************************************)
(* The server with its clients.  A read returns what the socket holds.     *)
(***************************************************************************)
Next ==
    \/ \E c \in Conns : ClientConnect(c)
    \/ \E c \in Conns, p \in Payloads : ClientSend(c, p)
    \/ \E c \in Conns : ClientClose(c)
    \/ AcquirePermit
    \/ \E c \in Conns : Accept(c)
    \/ AcceptFail
    \/ \E c \in Conns : HandlerStart(c)
    \/ \E c \in Conns : HandlerRead(c, Len(sock[c]))
    \/ \E c \in Conns : HandlerEof(c)
    \/ \E c \in Conns : HandlerIoError(c)
    \/ FlusherRecv
    \/ FlusherTimeout
    \/ \E t \in now .. MaxClock : FlushCreate(t)
    \/ FlushWrite
    \/ FlushMeta

Spec == Init /\ [][Next]_vars

(***************************************************************************)
(* One connection whose bytes the transport hands over in arbitrary        *)
(* pieces.                                                                 *)
(***************************************************************************)
FrameNext ==
    \/ ClientConnect(1)
    \/ \E p \in Payloads : ClientSend(1, p)
    \/ ClientClose(1)
    \/ AcquirePermit
    \/ Accept(1)
    \/ HandlerStart(1)
    \/ \E n \in 1 .. (MaxFrames * (LenBytes + MaxPayloadLen)) : HandlerRead(1, n)
    \/ HandlerEof(1)
    \/ FlusherRecv
    \/ \E t \in now .. MaxClock : FlushCreate(t)
    \/ FlushWrite
    \/ FlushMeta

SpecFrame == Init /\ [][FrameNext]_vars

(***************************************************************************)
(* One connection whose client may close in the middle of a frame.         *)
(***************************************************************************)
CloseNext ==
    \/ ClientConnect(1)
    \/ \E p \in Payloads : ClientSend(1, p)
    \/ ClientClose(1)
    \/ \E p \in Payloads, k \in 1 .. (LenBytes + MaxPayloadLen) : ClientCloseMidFrame(1, p, k)
    \/ AcquirePermit
    \/ Accept(1)
    \/ HandlerStart(1)
    \/ \E n \in 1 .. (MaxFrames * (LenBytes + MaxPayloadLen)) : HandlerRead(1, n)
    \/ HandlerEof(1)
    \/ FlusherRecv
    \/ \E t \in now .. MaxClock : FlushCreate(t)
    \/ FlushWrite
    \/ FlushMeta

SpecClose == Init /\ [][CloseNext]_vars

(***************************************************************************)
(* One storage engine driven directly, beside a query process.             *)
(***************************************************************************)
QueryNext ==
    \/ EngineAddLog(MaxLogs)
    \/ EngineFlush
    \/ \E t \in now .. MaxClock : FlushCreate(t)
    \/ FlushWrite
    \/ FlushMeta
    \/ QueryList
    \/ QueryRead
    \/ QueryDone

SpecQuery == Init /\ [][QueryNext]_vars

(***************************************************************************)
(* One storage engine driven directly for many files.                      *)
(***************************************************************************)
StoreNext ==
    \/ EngineAddLog(MaxFiles * BatchSize)
    \/ \E t \in now .. MaxClock : FlushCreate(t)
    \/ FlushWrite
    \/ FlushMeta

SpecStore == Init /\ [][StoreNext]_vars

(***************************************************************************)
(* One storage engine that receives its logs at once, beside the timer.    *)
(***************************************************************************)
EngineNext ==
    \/ EngineAddLog(MaxEngineLogs)
    \/ FlusherTimeout
    \/ \E t \in now .. MaxClock : FlushCreate(t)
    \/ FlushWrite
    \/ FlushMeta

SpecEngine == Init /\ [][EngineNext]_vars

(***************************************************************************)
(* One connection and the flusher, with time.                              *)
(***************************************************************************)
TimerNext ==
    \/ ClientConnect(1)
    \/ \E p \in Payloads : ClientSend(1, p)
    \/ ClientClose(1)
    \/ AcquirePermit
    \/ Accept(1)
    \/ HandlerStart(1)
    \/ HandlerRead(1, Len(sock[1]))
    \/ HandlerEof(1)
    \/ FlusherRecv
    \/ Tick
    \/ TimerExpired /\ FlusherTimeout
    \/ \E t \in now .. MaxClock : FlushCreate(t)
    \/ FlushWrite
    \/ FlushMeta

SpecTimer == Init /\ [][TimerNext]_vars

\* The flusher task is polled whenever it can run, time passes while it waits,
\* and a flush that has started runs on: it is synchronous code.
FlusherFairness ==
    /\ WF_vars(FlusherRecv)
    /\ WF_vars(Tick)
    /\ WF_vars(TimerExpired /\ FlusherTimeout)
    /\ WF_vars(\E t \in now .. MaxClock : FlushCreate(t))
    /\ WF_vars(FlushWrite)
    /\ WF_vars(FlushMeta)

SpecLive == Init /\ [][TimerNext]_vars /\ FlusherFairness

(***************************************************************************)
(* One connection and the flusher, whose channel loses its senders.        *)
(***************************************************************************)
DrainNext ==
    \/ ClientConnect(1)
    \/ \E p \in Payloads : ClientSend(1, p)
    \/ ClientClose(1)
    \/ AcquirePermit
    \/ Accept(1)
    \/ HandlerStart(1)
    \/ HandlerRead(1, Len(sock[1]))
    \/ HandlerEof(1)
    \/ FlusherRecv
    \/ FlusherTimeout
    \/ SendersDropped
    \/ FlusherClosed
    \/ FlusherDropEngine
    \/ FlusherExit
    \/ \E t \in now .. MaxClock : FlushCreate(t)
    \/ FlushWrite
    \/ FlushMeta

SpecDrain == Init /\ [][DrainNext]_vars

(***************************************************************************)
(* One connection and the flusher, with a client that sends an oversize    *)
(* length and a flusher that may end abnormally.                           *)
(***************************************************************************)
FaultNext ==
    \/ ClientConnect(1)
    \/ \E p \in Payloads : ClientSend(1, p)
    \/ ClientSendOversize(1)
    \/ ClientClose(1)
    \/ AcquirePermit
    \/ Accept(1)
    \/ HandlerStart(1)
    \/ HandlerRead(1, Len(sock[1]))
    \/ HandlerEof(1)
    \/ FlusherRecv
    \/ FlusherTimeout
    \/ FlusherAborts
    \/ FlusherExit
    \/ ServerKilled
    \/ \E t \in now .. MaxClock : FlushCreate(t)
    \/ FlushWrite
    \/ FlushMeta

SpecFault == Init /\ [][FaultNext]_vars

(***************************************************************************)
(* What the claims speak of.                                               *)
(***************************************************************************)
RECURSIVE Count(_, _)
Count(s, e) ==
    IF s = <<>> THEN 0 ELSE (IF Head(s) = e THEN 1 ELSE 0) + Count(Tail(s), e)

\* the rows a reader finds on disk: those of the closed files, in creation order
RECURSIVE DiskRows(_)
DiskRows(d) ==
    IF d = <<>> THEN <<>>
    ELSE (IF Head(d).closed THEN Head(d).rows ELSE <<>>) \o DiskRows(Tail(d))

\* the queue is empty and no flush is pending or in progress
Quiescent == queue = <<>> /\ current_batch = <<>> /\ fpc = "recv"

\* handlers spawned and not yet returned
InFlight == {c \in Conns : hpc[c] \in {"spawned", "reading"}}

IsPrefix(s, t) == Len(s) <= Len(t) /\ SubSeq(t, 1, Len(s)) = s

\* C1 as stated: once the queue is empty and all flushes have completed, the
\* rows on disk are exactly the records parse_fast returned, each once.
C1_ParsedEqualsDisk ==
    Quiescent =>
        /\ \A e \in offered : Count(DiskRows(disk), e) = 1
        /\ Range(DiskRows(disk)) \subseteq offered

\* C1, amended: once the queue and the batch are empty, the rows of the closed
\* files are exactly the records the queue accepted (parsed and not dropped as
\* Full), each once, plus one more copy of every batch whose flush failed after
\* its file had been closed.
C1_AcceptedEqualsDisk ==
    Quiescent =>
        /\ \A e \in offered :
              Count(DiskRows(disk), e) =
                  (IF e \in droppedRecs THEN 0 ELSE 1) + Count(rewritten, e)
        /\ Range(DiskRows(disk)) \subseteq offered

\* C1's case: everything is flushed, records of two connections are on disk
\* and a record was dropped.
C1_Witness ==
    /\ Quiescent
    /\ droppedRecs # {}
    /\ \E e1, e2 \in Range(DiskRows(disk)) : e1.conn # e2.conn

C3_HandlersBounded ==
    /\ Cardinality(InFlight) <= MaxConnections
    /\ apc = "accept" => Cardinality(InFlight) < MaxConnections

\* C3's case: M handlers are in flight, a further client has connected and the
\* accept loop is held at the semaphore.
C3_Witness ==
    /\ Cardinality(InFlight) = MaxConnections
    /\ apc = "acquire"
    /\ permits = 0
    /\ \E c \in Conns : cstate[c] = "open" /\ hpc[c] = "none"

\* C4: each entry rejected as Full is counted once in dropped_messages and is
\* nowhere on its way to a file, and the handler has gone on to the frames
\* behind it: every frame the handler has read has been passed to parse_fast.
C4_DropCountedAndLost ==
    /\ dropped_messages = Cardinality(droppedRecs)
    /\ \A e \in droppedRecs :
          /\ e \notin Range(queue) \cup Range(current_batch)
          /\ \A i \in 1 .. Len(disk) : e \notin Range(disk[i].rows)
          /\ (hpc[e.conn] = "reading" /\ sock[e.conn] = <<>>) =>
                 parsed[e.conn] = sent[e.conn]

\* C4's case: an entry was dropped and a later frame of the same connection
\* was parsed and accepted by the queue.
C4_Witness ==
    \E e \in droppedRecs, f \in offered \ droppedRecs :
        f.conn = e.conn /\ f.seq > e.seq

\* C5: once the handler has read all a client sent, exactly the well-formed
\* frames have been offered to the queue, also those behind a frame that
\* failed, and nothing was offered for a frame that failed.
C5_BadFrameSkipped ==
    \A c \in Conns :
        (hpc[c] = "reading" /\ sock[c] = <<>>) =>
            \A i \in 1 .. Len(sent[c]) :
                /\ ParseFast(sent[c][i]).ok =>
                       LogEntry(ParseFast(sent[c][i]).body, c, i) \in offered
                /\ ~ParseFast(sent[c][i]).ok =>
                       \A e \in offered : ~(e.conn = c /\ e.seq = i)

\* C5's case: a frame failed to parse and a later frame of the same connection
\* was offered to the queue.
C5_Witness ==
    \E c \in Conns :
        /\ hpc[c] = "reading"
        /\ \E i, j \in 1 .. Len(sent[c]) :
              /\ i < j
              /\ ~ParseFast(sent[c][i]).ok
              /\ \E e \in offered : e.conn = c /\ e.seq = j

\* C6: whatever pieces the reads return, the payloads passed to parse_fast are
\* a prefix of the payloads sent, in order, each once; the bytes read and not
\* yet parsed are in the accumulator; once every byte is read, all payloads
\* sent have been passed.
C6_FramesReassembled ==
    \A c \in Conns :
        /\ IsPrefix(parsed[c], sent[c])
        /\ hpc[c] = "reading" =>
               EncodeAll(parsed[c]) \o accumulator[c] \o sock[c] = EncodeAll(sent[c])
        /\ (hpc[c] = "reading" /\ sock[c] = <<>>) =>
               parsed[c] = sent[c] /\ accumulator[c] = <<>>

\* C6's case: after a frame with a payload was parsed, a read ended inside the
\* length prefix of the next frame.
C6_Witness ==
    /\ hpc[1] = "reading"
    /\ Len(parsed[1]) >= 1
    /\ parsed[1][1] # <<>>
    /\ Len(accumulator[1]) \in 1 .. (LenBytes - 1)

\* C7 as stated: when a flush has failed, the in-memory batch is empty
\* afterwards (its records are lost, not kept for a retry).
C7_FailedFlushEmptiesBatch ==
    lastFlush = "err" => current_batch = <<>>

\* C8 as stated: when no flush is in progress every file in the directory is
\* closed, that is complete.
C8_FilesComplete ==
    fpc = "recv" => \A i \in 1 .. Len(disk) : disk[i].closed

\* C9 as stated: read_file never opens a file the writer has not closed.
C9_ReaderSeesClosedFiles == ~qsawPartial

\* C10 as stated: list_files returns the files of an engine in the order in
\* which they were created.
C10_SortedIsCreationOrder == ListFiles(disk) = Names(disk)

\* the place of the first copy of e in s
FirstIndex(s, e) ==
    CHOOSE i \in 1 .. Len(s) : s[i] = e /\ \A j \in 1 .. (i - 1) : s[j] # e

C12_SecondFlushIsNoOp ==
    [][(FlusherTimeout /\ lastFlush # "none") =>
           (fpc' = "recv" /\ UNCHANGED <<current_batch, file_counter, disk>>)]_vars

\* C13: every file the engine has written holds at least one row and at most
\* BatchSize rows, whatever add_log calls, timer flushes and failed flushes
\* came before it.
C13_FileHoldsOneToBRows ==
    \A i \in 1 .. Len(disk) :
        disk[i].closed => Len(disk[i].rows) \in 1 .. BatchSize

\* C14: while a record is in the batch, no more than one flush interval has
\* passed since it was added.
C14_StalenessBounded ==
    current_batch # <<>> => age <= FlushInterval

ClosedFiles(d) == {i \in 1 .. Len(d) : d[i].closed}

ShortFiles(d) == {i \in ClosedFiles(d) : Len(d[i].rows) < BatchSize}

\* C15: while no write has failed and no flush is in progress, after n records
\* and before the timer has flushed there are n \div BatchSize files of BatchSize
\* rows each and the other n % BatchSize records are in the batch; a file of fewer
\* rows is written only by a flush of the timer, one file for each such flush.
C15_FilesPerBatch ==
    (nfail = 0 /\ fpc = "recv") =>
        /\ \A i \in 1 .. Len(disk) : disk[i].closed /\ Len(disk[i].rows) \in 1 .. BatchSize
        /\ Cardinality(ShortFiles(disk)) = timerFlushes
        /\ Len(DiskRows(disk)) + Len(current_batch) = ingest_count
        /\ Len(current_batch) < BatchSize
        /\ timerFlushes = 0 =>
              /\ Len(disk) = ingest_count \div BatchSize
              /\ Len(current_batch) = ingest_count % BatchSize

\* C15's case: two full batches were written as two files, and the records
\* after them went to a third, shorter file when the timer fired.
C15_Witness ==
    /\ nfail = 0 /\ fpc = "recv"
    /\ timerFlushes = 1
    /\ Len(disk) = 3
    /\ Len(disk[1].rows) = BatchSize /\ Len(disk[2].rows) = BatchSize
    /\ Len(disk[3].rows) \in 1 .. (BatchSize - 1)
    /\ ingest_count = (2 * BatchSize) + Len(disk[3].rows)

\* C16: once every sender is gone, the flusher has left its loop only after it
\* received every record the channel took; and when it has exited with no write
\* failed, the channel and the batch are empty and every such record is on disk.
C16_ClosedQueueDrained ==
    /\ fstage # "loop" =>
           /\ queue = <<>>
           /\ ingest_count = Len(accepted)
    /\ (fstage = "exited" /\ nfail = 0) =>
           /\ queue = <<>>
           /\ current_batch = <<>>
           /\ DiskRows(disk) = accepted

\* C16's case: the flusher has exited after the channel lost its senders, with
\* records on disk that the last two flushes wrote.
C16_Witness ==
    /\ fstage = "exited" /\ ~tx_alive /\ nfail = 0
    /\ Len(accepted) >= 2
    /\ timerFlushes = 0
    /\ Len(accepted) % BatchSize # 0

\* C17: the gauge is the number of handlers that have started and not returned,
\* and it is zero when no handler is left.
C17_GaugeCountsHandlers ==
    /\ active_connections = Cardinality({c \in Conns : hpc[c] = "reading"})
    /\ (\A c \in Conns : hpc[c] \in {"none", "done"}) => active_connections = 0

\* C17's case: every handler has run and returned, one of them on a read error
\* (its client is still open) and one after its client closed.
C17_Witness ==
    /\ \A c \in Conns : hpc[c] = "done"
    /\ \E c \in Conns : cstate[c] = "open"
    /\ \E c \in Conns : cstate[c] = "closed"
    /\ active_connections = 0

\* C18: a handler that has read a length prefix above MaxFrameLen has ended; it
\* does not wait for the payload.
C18_OversizeFrameRejected ==
    \A c \in Conns :
        (Len(accumulator[c]) >= LenBytes /\ FromBeBytes(accumulator[c]) > MaxFrameLen)
            => hpc[c] = "done"

\* C19: a handler whose try_send reported the channel closed has ended.
C19_ClosedQueueEndsHandler ==
    \A c \in Conns : sawClosed[c] => hpc[c] = "done"

RECURSIVE Rejected(_)
Rejected(ps) ==
    IF ps = <<>> THEN 0
    ELSE (IF ParseFast(Head(ps)).ok THEN 0 ELSE 1) + Rejected(Tail(ps))

RECURSIVE RejectedBy(_)
RejectedBy(S) ==
    IF S = {} THEN 0
    ELSE LET c == CHOOSE x \in S : TRUE IN Rejected(parsed[c]) + RejectedBy(S \ {c})

\* C20: the failure counter is the number of frames parse_fast has rejected.
C20_RejectedFramesCounted == FailureCounter = RejectedBy(Conns)

\* C21: a frame of length 0 takes its four length bytes and no more, so the
\* framing of the stream stays exact and no empty frame is left in the
\* accumulator; nothing is offered to the queue for it, and every well-formed
\* frame parsed, before it or after it, is offered.
C21_EmptyFrameSkipped ==
    \A c \in Conns :
        /\ hpc[c] = "reading" =>
               EncodeAll(parsed[c]) \o accumulator[c] \o sock[c] = EncodeAll(sent[c])
        /\ Len(accumulator[c]) >= LenBytes => FromBeBytes(accumulator[c]) # 0
        /\ \A i \in 1 .. Len(parsed[c]) :
               /\ parsed[c][i] = <<>> => \A e \in offered : ~(e.conn = c /\ e.seq = i)
               /\ ParseFast(parsed[c][i]).ok =>
                      LogEntry(ParseFast(parsed[c][i]).body, c, i) \in offered

\* C21's case: an empty frame was parsed and the frame behind it was offered to
\* the queue.
C21_Witness ==
    \E i \in 1 .. (Len(parsed[1]) - 1) :
        /\ parsed[1][i] = <<>>
        /\ \E e \in offered : e.conn = 1 /\ e.seq = i + 1

\* the frames of connections 1 .. n, one connection after the other: the
\* sequence a single connection would have carried
RECURSIVE AllSent(_)
AllSent(n) == IF n = 0 THEN <<>> ELSE AllSent(n - 1) \o sent[n]

\* the number of well-formed frames of ps whose record has body b
ValidCount(ps, b) ==
    Cardinality({i \in 1 .. Len(ps) : ParseFast(ps[i]).ok /\ ParseFast(ps[i]).body = b})

\* the number of rows with body b
BodyCount(rows, b) == Cardinality({i \in 1 .. Len(rows) : rows[i].body = b})

C23_StalledSumIsN ==
    (ingest_count = 0 /\ Cardinality(offered) > QueueCap) =>
        /\ dropped_messages >= Cardinality(offered) - QueueCap
        /\ Cardinality(offered) - QueueCap > 0
        /\ ingest_count + dropped_messages = Cardinality(offered)

\* C23, amended: while the flusher has received nothing, n > Q records offered
\* leave Q of them in the queue and drop the other n - Q > 0; the two counters
\* sum to n less the records still queued, so to n once the queue is drained.
C23_StalledFlusherDrops ==
    /\ (ingest_count = 0 /\ Cardinality(offered) > QueueCap) =>
           /\ Len(queue) = QueueCap
           /\ dropped_messages = Cardinality(offered) - QueueCap
           /\ dropped_messages > 0
    /\ ingest_count + dropped_messages = Cardinality(offered) - Len(queue)

\* C23's case: the flusher has received nothing, two connections have offered
\* records and at least two records were dropped.
C23_Witness ==
    /\ ingest_count = 0
    /\ dropped_messages >= 2
    /\ \E e1, e2 \in offered : e1.conn # e2.conn

\* C24 as stated: recovery after a storage fault.  No record is in more than
\* one file, and the file written by the first flush after a failed one, with
\* no record added in between, holds no row: all that flush could write is the
\* batch of the failed flush.
C24_CleanAfterFailedFlush ==
    /\ \A i, j \in 1 .. Len(disk) :
           i # j => Range(disk[i].rows) \cap Range(disk[j].rows) = {}
    /\ (lastFlush = "err" /\ fpc = "meta") =>
           \A i \in FileIndex(disk, file_path) : disk[i].rows = <<>>

\* C25: a count_logs that started when n records had been added, all of them
\* flushed and none written twice, returns n, whatever the engine does while
\* the query reads.
C25_CountLogsReturnsAdded ==
    (qpc = "read" /\ qfiles = <<>> /\ qstart.flushed) => qcount = qstart.n

\* C25's case: three records in two files, counted by a finished query.
C25_Witness ==
    /\ qpc = "read" /\ qfiles = <<>>
    /\ qstart.flushed
    /\ qstart.n >= 3
    /\ Len(disk) >= 2
    /\ qcount = qstart.n

\* C26: the step of a flush that creates its file adds one file under a name
\* the directory did not have, and no other step adds or removes a file; a
\* file changes only while it is the file the running flush writes, so what
\* an earlier flush left is never appended to, overwritten, merged or
\* removed; fewer than B records and one flush give exactly one file.
C26_FlushAddsOneFile ==
    /\ []((timerFlushes = 1 /\ ingest_count < BatchSize /\ lastFlush = "ok") =>
              Len(disk) = 1 /\ disk[1].closed /\ Len(disk[1].rows) = ingest_count)
    /\ [][/\ Len(disk') = Len(disk) + (IF fpc = "create" /\ fpc' = "write" THEN 1 ELSE 0)
          /\ (fpc = "create" /\ fpc' = "write") =>
                 /\ FileIndex(disk, file_path') = {}
                 /\ disk'[Len(disk')].name = file_path'
          /\ \A i \in 1 .. Len(disk) :
                 (disk[i].closed \/ fpc # "write" \/ disk[i].name # file_path) =>
                     disk'[i] = disk[i]]_vars

\* C26's case: a second flush has completed beside the file of the first.
C26_Witness ==
    /\ Len(disk) >= 2
    /\ disk[1].closed /\ disk[2].closed
    /\ fpc = "recv" /\ lastFlush = "ok"

\* the optional keys of the input, as the default schema names them
OptionalStrings == {"service", "trace_id"}

\* C27 as stated: in the row of an accepted object, service and trace_id hold
\* the string the input has under that name and are null when the input has
\* none; metadata holds the JSON text of the input's value or is null.
C27_OptionalFieldsRoundTrip ==
    ppc = "stored" =>
        /\ \A k \in OptionalStrings :
               prow[k] = (IF pinput[k].t = "absent" THEN None ELSE Some(pinput[k].v))
        /\ prow.metadata = (IF pinput.metadata.t = "absent" THEN None
                            ELSE Some(JsonText(pinput.metadata)))

\* C28 as stated: every record parse_fast returns has timestamp, level and
\* message present in the input, and its level and message are non-empty.
C28_RequiredFieldsNonEmpty ==
    (ppc \in {"parsed", "stored"} /\ pres.ok) =>
        /\ \A k \in {"timestamp", "level", "message"} : pinput[k].t = "string"
        /\ pres.entry.level # <<>>
        /\ pres.entry.message # <<>>

\* the number a sequence of digits writes
RECURSIVE ParseDecimal(_)
ParseDecimal(s) ==
    IF s = <<>> THEN 0
    ELSE 10 * ParseDecimal(SubSeq(s, 1, Len(s) - 1)) + (s[Len(s)] - Digit(0))

\* the counter a file name carries: the digits between the underscore after
\* the time and the extension
CounterOf(name) ==
    ParseDecimal(SubSeq(name, Len(LogsPrefix \o FormatTime(0) \o Underscore) + 1,
                        Len(name) - Len(Dot \o ParquetExt)))

\* C29 as stated: the file counter equals the number of files written, and the
\* files carry N = 0, 1, 2, ... in flush order, also after failed flushes.
C29_CounterIsFileCount ==
    /\ file_counter = Len(disk)
    /\ \A i \in 1 .. Len(disk) : CounterOf(disk[i].name) = i - 1

\* C29, amended: the counter advances once for every file name generated,
\* whether or not the file is then created.  The files carry strictly
\* increasing N in flush order, all below the counter, without repeats; the
\* counter exceeds the number of files by at most the number of failed
\* flushes, and with no failed flush the files carry N = 0, 1, 2, ...
C29_CounterStrictlyIncreasing ==
    /\ \A i, j \in 1 .. Len(disk) :
           i < j => CounterOf(disk[i].name) < CounterOf(disk[j].name)
    /\ \A i \in 1 .. Len(disk) : CounterOf(disk[i].name) < file_counter
    /\ Len(disk) <= file_counter
    /\ file_counter <= Len(disk) + nfail
    /\ nfail = 0 => \A i \in 1 .. Len(disk) : CounterOf(disk[i].name) = i - 1

\* C29's case: a flush failed before its file was created and a later flush
\* wrote a file, whose N is past its place in the directory.
C29_Witness ==
    \E i \in 1 .. Len(disk) :
        /\ disk[i].closed
        /\ CounterOf(disk[i].name) > i - 1
        /\ i >= 2

\* C30 as stated: when the server has stopped and no write failed, the batch
\* is empty and every record the flusher added to it is in a file.
C30_FinalFlushAtShutdown ==
    (fstage \in {"exited", "killed"} /\ nfail = 0) =>
        /\ current_batch = <<>>
        /\ Len(DiskRows(disk)) = ingest_count

\* C31 as stated: between engine operations, that is whenever no flush is in
\* progress, the batch holds fewer than B records, also after failed flushes.
C31_BatchBelowB ==
    fpc = "recv" => Len(current_batch) < BatchSize

\* C32: permits are conserved.  The permits left in the semaphore, those of
\* the handlers spawned and not yet returned, and the one the accept loop
\* holds while it waits in accept, add up to M; so when no handler is left
\* and the loop is at the semaphore, all M permits are back.
C32_PermitsConserved ==
    /\ permits + Cardinality(InFlight) + (IF apc = "accept" THEN 1 ELSE 0)
           = MaxConnections
    /\ permits \in 0 .. MaxConnections
    /\ (InFlight = {} /\ apc = "acquire") => permits = MaxConnections

\* C32's case: a handler has returned on a read error, its client still open,
\* and the permit it gave back is held again by the accept loop.
C32_Witness ==
    /\ apc = "accept"
    /\ permits = MaxConnections - 1
    /\ \E c \in Conns : hpc[c] = "done" /\ cstate[c] = "open"

EngineState == <<current_batch, file_counter, file_path, disk, ingest_count, fpc>>

\* what the accept loop and the handlers work on; every step of theirs changes
\* some of it
CoordinatorState ==
    <<apc, permits, hpc, accumulator, parsed, active_connections, sock, offered,
      droppedRecs, dropped_messages, accepted, sawClosed>>

\* C34: a step that changes the engine's batch, counters or files, or the
\* storage directory, is no step of the accept loop or of a handler; so every
\* step of the accept loop and of a handler leaves the engine and the
\* directory as they are.
C34_OnlyFlusherWritesEngine ==
    [][/\ EngineState' # EngineState => CoordinatorState' = CoordinatorState
       /\ CoordinatorState' # CoordinatorState => EngineState' = EngineState]_vars

\* C34's case: while a handler is reading and the accept loop waits for a
\* permit, the engine holds a batch beside a file it has written.
C34_Witness ==
    /\ \E c \in Conns : hpc[c] = "reading" /\ parsed[c] # <<>>
    /\ apc = "acquire" /\ permits = 0
    /\ current_batch # <<>>
    /\ \E i \in 1 .. Len(disk) : disk[i].closed

\* C35: an entry whose timestamp string is not RFC-3339 is written, in its
\* place in the batch, with timestamp 0 and its other cells as parsed; an
\* entry whose timestamp is well formed is written with its instant; and the
\* entries that share the batch are written as if they were alone.
C35_BadTimestampIsEpoch ==
    ppc = "stored" =>
        /\ Len(prows) = 3
        /\ prows[2] = prow
        /\ prow.timestamp =
               (IF \E n \in 0 .. MaxMillis : pres.entry.timestamp = Rfc3339(n)
                THEN CHOOSE n \in 0 .. MaxMillis : pres.entry.timestamp = Rfc3339(n)
                ELSE 0)
        /\ prow.level = pres.entry.level /\ prow.message = pres.entry.message
        /\ prow.service = pres.entry.service
        /\ \A i \in {1, 3} : prows[i] = Row(1, Word, Word, Some(Word), None, None)

\* C35's case: an accepted entry with a timestamp that is not RFC-3339 was
\* written with timestamp 0 between two entries of the same batch.
C35_Witness ==
    /\ ppc = "stored"
    /\ pinput.timestamp = Str(Word)
    /\ prow.timestamp = 0
    /\ prows[2].level = Word
    /\ Len(prows) = 3

\* the records connection 1 can send
Records == {LogEntry(b, 1, i) : b \in Bodies, i \in 1 .. MaxFrames}

\* C36: under a fair flusher, every record the queue accepted is eventually a
\* row of a closed file, with the senders alive throughout.
C36_AcceptedEventuallyWritten ==
    \A e \in Records :
        (e \in Range(accepted)) ~> (tx_alive /\ e \in Range(DiskRows(disk)))

\* C36's case: a batch below B was written by a timer flush, with the senders
\* alive and the flusher in its loop.
C36_Witness ==
    /\ timerFlushes >= 1
    /\ ShortFiles(disk) # {}
    /\ Range(accepted) \subseteq Range(DiskRows(disk))
    /\ tx_alive /\ fstage = "loop"

IncompleteFrame(acc) ==
    /\ acc # <<>>
    /\ Len(acc) < LenBytes \/ Len(acc) < LenBytes + FromBeBytes(acc)

\* C38: a handler that has returned at the end of a stream that stopped inside
\* a frame has left that frame in the accumulator, has parsed every complete
\* frame and offered the well-formed ones and nothing else, and the counters
\* account for those alone; the step in which it returns changes no counter
\* and nothing in the queue.
C38_CloseMidFrameIsClean ==
    /\ [](\A c \in Conns :
             (hpc[c] = "done" /\ accumulator[c] # <<>>) =>
                 /\ IncompleteFrame(accumulator[c])
                 /\ parsed[c] = sent[c]
                 /\ {e \in offered : e.conn = c} =
                        {LogEntry(ParseFast(sent[c][i]).body, c, i) :
                            i \in {j \in 1 .. Len(sent[c]) : ParseFast(sent[c][j]).ok}}
                 /\ ingest_count + dropped_messages + Len(queue) = Cardinality(offered))
    /\ [][hpc' # hpc =>
              UNCHANGED <<queue, offered, accepted, dropped_messages, ingest_count,
                          parsed, accumulator>>]_vars

\* C38's case: the client closed after the four length bytes of a frame whose
\* payload never came, behind a frame that was parsed and offered; the handler
\* has returned.
C38_Witness ==
    /\ hpc[1] = "done"
    /\ Len(accumulator[1]) = LenBytes
    /\ FromBeBytes(accumulator[1]) > 0
    /\ parsed[1] # <<>>
    /\ \E e \in offered : e.conn = 1

\* C39: ingest_count is the number of records the flusher has taken from the
\* queue, each counted once when add_log pushes it onto the batch: it is the
\* number of records in the batch or in a written file, it is never below the
\* number of records on disk, and no step of a flush, failed or not, changes it.
C39_IngestCountsAddLog ==
    /\ [](/\ ingest_count = Len(accepted) - Len(queue)
          /\ ingest_count = Cardinality(Range(current_batch) \cup Range(DiskRows(disk)))
          /\ ingest_count >= Cardinality(Range(DiskRows(disk))))
    /\ [][/\ Len(current_batch') = Len(current_batch) + 1 =>
                 ingest_count' = ingest_count + 1
          /\ Len(current_batch') # Len(current_batch) + 1 =>
                 ingest_count' = ingest_count]_vars

\* C39's case: the flush that the B-th add_log started has failed; the B
\* records are counted and none of them is on disk.
C39_Witness ==
    /\ lastFlush = "err"
    /\ fpc = "recv"
    /\ ingest_count = BatchSize
    /\ DiskRows(disk) = <<>>

=============================================================================
